---- MODULE Spec2Model ----
(***************************************************************************)
(* Model of ynabifier.py: conversion of DKB CSV exports into YNAB CSV.     *)
(*                                                                         *)
(* Text is modelled as a sequence of tokens.  A token is a TLA+ string     *)
(* standing for a piece of a Python string: a single character for digits, *)
(* punctuation and the blank (" "), a whole word otherwise.  A word token  *)
(* holds no digit, no blank and none of the characters , ; - / (the only   *)
(* word with dots is the "S.a.r.l." of PAYPAL_PREFIX, never in an amount). *)
(* A line of a file is the token sequence of its text without the line     *)
(* terminator; a parsed row is a sequence of cells, each a token sequence. *)
(* CSV quoting is not modelled: no field of the modelled files is quoted.  *)
(***************************************************************************)
EXTENDS Integers, Sequences, FiniteSets, TLC

(***************************************************************************)
(* Bounds of the model.                                                    *)
(***************************************************************************)
MaxRows == 2
MaxLimit == 2
MaxCalls == 2

(***************************************************************************)
(* Tokens.                                                                 *)
(***************************************************************************)
DigitChars == <<"0", "1", "2", "3", "4", "5", "6", "7", "8", "9">>

IsDigit(c) == \E i \in 1..10 : DigitChars[i] = c

DigitVal(c) == (CHOOSE i \in 1..10 : DigitChars[i] = c) - 1

IsSpace(c) == c = " "

\* Python None (the DictReader restval of a missing field).  Never the value
\* of a cell read from a file.
None == <<"<None>">>

\* ---- generic sequence helpers -------------------------------------------
RECURSIVE SelectTokens(_, _)
SelectTokens(s, keep) ==
    IF s = <<>> THEN <<>>
    ELSE IF Head(s) \in keep THEN <<Head(s)>> \o SelectTokens(Tail(s), keep)
    ELSE SelectTokens(Tail(s), keep)

RECURSIVE ReplaceToken(_, _, _)
ReplaceToken(s, a, b) ==
    IF s = <<>> THEN <<>>
    ELSE <<IF Head(s) = a THEN b ELSE Head(s)>> \o ReplaceToken(Tail(s), a, b)

IsPrefix(p, s) == Len(p) <= Len(s) /\ SubSeq(s, 1, Len(p)) = p

\* str.strip(): drop leading and trailing whitespace.
RECURSIVE LStrip(_)
LStrip(s) == IF s # <<>> /\ IsSpace(Head(s)) THEN LStrip(Tail(s)) ELSE s

RECURSIVE RStrip(_)
RStrip(s) ==
    IF s # <<>> /\ IsSpace(s[Len(s)]) THEN RStrip(SubSeq(s, 1, Len(s) - 1)) ELSE s

Strip(s) == LStrip(RStrip(s))

(***************************************************************************)
(* Module-level constants.                                                 *)
(***************************************************************************)
YNAB_FIELDNAMES == <<"Date", "Payee", "Category", "Memo", "Outflow", "Inflow">>

PAYPAL_PREFIX == <<"PayPal", " ", "Europe", " ", "S.a.r.l.">>

GIROKONTO == "Girokonto"
VISA == "VISA"
AccountType == {GIROKONTO, VISA}

\* Column names of the DKB layouts.
Buchungsdatum == <<"Buchungsdatum">>
Wertstellung == <<"Wertstellung">>
Zahlungspflichtiger == <<"Zahlungspflichtige*r">>
Zahlungsempfaenger == <<"Zahlungsempfänger*in">>
Verwendungszweck == <<"Verwendungszweck">>
BetragEuro == <<"Betrag (€)">>
Beschreibung == <<"Beschreibung">>
BetragEUR == <<"Betrag (EUR)">>
Unnamed == <<>>

(***************************************************************************)
(* Locale converters.                                                      *)
(***************************************************************************)
\* Value of a digit sequence read as a decimal numeral.
RECURSIVE DigitsValue(_)
DigitsValue(ds) ==
    IF ds = <<>> THEN 0
    ELSE 10 * DigitsValue(SubSeq(ds, 1, Len(ds) - 1)) + DigitVal(ds[Len(ds)])

AllDigits(ds) == \A i \in 1..Len(ds) : IsDigit(ds[i])

\* float(text) for a text over digits, "." and "-": an optional sign, then
\* digits with at most one "." and at least one digit.  The value is kept
\* exactly, as sign, integer part and fraction digits.
ParseFloat(text) ==
    LET neg == text # <<>> /\ Head(text) = "-"
        body == IF neg THEN Tail(text) ELSE text
        dots == {i \in 1..Len(body) : body[i] = "."}
        ip == IF dots = {} THEN body
              ELSE SubSeq(body, 1, (CHOOSE i \in dots : TRUE) - 1)
        fp == IF dots = {} THEN <<>>
              ELSE SubSeq(body, (CHOOSE i \in dots : TRUE) + 1, Len(body))
    IN  IF Cardinality(dots) <= 1 /\ AllDigits(ip) /\ AllDigits(fp)
           /\ Len(ip) + Len(fp) >= 1
        THEN [ok |-> TRUE, neg |-> neg, int |-> DigitsValue(ip), frac |-> fp]
        ELSE [ok |-> FALSE, neg |-> FALSE, int |-> 0, frac |-> <<>>]

\* re.sub(r"[^\d,.\-]", "", s), then "." removed, then "," replaced by ".".
convert_german_to_american(number_string) ==
    LET cleaned1 == SelectTokens(number_string,
                                 {DigitChars[i] : i \in 1..10} \cup {",", ".", "-"})
        cleaned2 == SelectTokens(cleaned1,
                                 {DigitChars[i] : i \in 1..10} \cup {",", "-"})
        cleaned == ReplaceToken(cleaned2, ",", ".")
    IN  ParseFloat(cleaned)

parse_amount(amount) == convert_german_to_american(amount)

\* Sign of a parsed amount: 1, -1 or 0 (0.0 and -0.0 alike).
Sign(a) ==
    IF a.int = 0 /\ \A i \in 1..Len(a.frac) : a.frac[i] = "0" THEN 0
    ELSE IF a.neg THEN -1 ELSE 1

\* datetime.strptime(date_str, "%d.%m.%y" | "%d.%m.%Y").strftime("%d/%m/%y"):
\* day and month of one or two digits, year of exactly two (first format) or
\* four (second format) digits, forming a calendar date.
RECURSIVE SplitOn(_, _)
SplitOn(s, d) ==
    LET at == {i \in 1..Len(s) : s[i] = d}
    IN  IF at = {} THEN <<s>>
        ELSE LET k == CHOOSE i \in at : \A j \in at : i <= j
             IN  <<SubSeq(s, 1, k - 1)>> \o SplitOn(SubSeq(s, k + 1, Len(s)), d)

IsLeap(y) == (y % 4 = 0 /\ y % 100 # 0) \/ y % 400 = 0

DaysIn(m, y) ==
    IF m = 2 THEN (IF IsLeap(y) THEN 29 ELSE 28)
    ELSE IF m \in {4, 6, 9, 11} THEN 30 ELSE 31

TwoDigits(n) == <<DigitChars[(n \div 10) + 1], DigitChars[(n % 10) + 1]>>

convert_date_format(date_str) ==
    LET parts == SplitOn(date_str, ".")
        shaped == /\ Len(parts) = 3
                  /\ \A i \in 1..3 : parts[i] # <<>> /\ AllDigits(parts[i])
                  /\ Len(parts[1]) <= 2 /\ Len(parts[2]) <= 2
                  /\ Len(parts[3]) \in {2, 4}
        d == DigitsValue(parts[1])
        m == DigitsValue(parts[2])
        yy == DigitsValue(parts[3])
        y == IF Len(parts[3]) = 4 THEN yy
             ELSE IF yy <= 68 THEN 2000 + yy ELSE 1900 + yy
    IN  IF shaped /\ m \in 1..12 /\ d >= 1 /\ d <= DaysIn(m, y) /\ y >= 1
        THEN TwoDigits(d) \o <<"/">> \o TwoDigits(m) \o <<"/">> \o TwoDigits(y % 100)
        ELSE date_str

(***************************************************************************)
(* Text normalizer and payee rewriter.                                     *)
(***************************************************************************)
\* " ".join(value.split())
RECURSIVE CollapseSpaces(_)
CollapseSpaces(s) ==
    IF s = <<>> THEN <<>>
    ELSE IF IsSpace(Head(s))
         THEN <<" ">> \o CollapseSpaces(LStrip(s))
         ELSE <<Head(s)>> \o CollapseSpaces(Tail(s))

normalize_text(value) == CollapseSpaces(Strip(value))

EinkaufPhrase == <<"Ihr", " ", "Einkauf", " ", "bei">>

\* re.search(r"Ihr Einkauf bei\s+(.+?)(?:,|$)", memo): the leftmost
\* occurrence of the phrase followed by whitespace; the capture starts after
\* the whitespace, holds at least one character and ends before the first
\* later comma or at the end of the memo.
extract_paypal_store(memo) ==
    LET starts == {i \in 1..Len(memo) :
                      /\ i + 5 <= Len(memo)
                      /\ SubSeq(memo, i, i + 4) = EinkaufPhrase
                      /\ IsSpace(memo[i + 5])}
    IN  IF memo = <<>> \/ starts = {} THEN <<>>
        ELSE LET i == CHOOSE k \in starts : \A l \in starts : k <= l
                 rest == LStrip(SubSeq(memo, i + 5, Len(memo)))
                 ends == {k \in 1..Len(rest) :
                             k = Len(rest) \/ rest[k + 1] = ","}
             IN  IF rest = <<>> THEN <<>>
                 ELSE Strip(SubSeq(rest, 1,
                                   CHOOSE k \in ends : \A l \in ends : k <= l))

normalize_payee(payee, memo) ==
    IF IsPrefix(PAYPAL_PREFIX, Strip(payee)) /\ extract_paypal_store(memo) # <<>>
    THEN extract_paypal_store(memo)
    ELSE payee

(***************************************************************************)
(* Row builder.                                                            *)
(***************************************************************************)
RECURSIVE NatDigits(_)
NatDigits(n) ==
    IF n < 10 THEN <<DigitChars[n + 1]>>
    ELSE NatDigits(n \div 10) \o <<DigitChars[(n % 10) + 1]>>

\* f"{amount:.2f}": the amount rounded to hundredths.  A remainder of
\* exactly half a hundredth is rounded to the even hundredth, which is what
\* the format does for the amounts whose double is exact.
format_amount(a) ==
    LET f == a.frac \o <<"0", "0", "0">>
        cents == a.int * 100 + DigitVal(f[1]) * 10 + DigitVal(f[2])
        rest == SubSeq(f, 3, Len(f))
        restZero == \A i \in 1..Len(rest) : rest[i] = "0"
        tailZero == \A i \in 2..Len(rest) : rest[i] = "0"
        up == \/ DigitVal(rest[1]) > 5
              \/ DigitVal(rest[1]) = 5 /\ ~tailZero
              \/ DigitVal(rest[1]) = 5 /\ tailZero /\ cents % 2 = 1
        r == IF up THEN cents + 1 ELSE cents
        sign == IF a.neg THEN <<"-">> ELSE <<>>
    IN  sign \o NatDigits(r \div 100) \o <<".">> \o TwoDigits(r % 100)

\* abs(amount)
Abs(a) == [a EXCEPT !.neg = FALSE]

\* A row builder that fills Inflow for every non-zero amount.
build_row_both(date, payee, memo, amount) ==
    [Date |-> date,
     Payee |-> payee,
     Category |-> <<>>,
     Memo |-> memo,
     Outflow |-> IF Sign(amount) < 0 THEN format_amount(Abs(amount)) ELSE <<>>,
     Inflow |-> IF Sign(amount) # 0 THEN format_amount(Abs(amount)) ELSE <<>>]

build_row(date, payee, memo, amount) ==
    [Date |-> date,
     Payee |-> payee,
     Category |-> <<>>,
     Memo |-> memo,
     Outflow |-> IF Sign(amount) < 0 THEN format_amount(Abs(amount)) ELSE <<>>,
     Inflow |-> IF Sign(amount) > 0 THEN format_amount(amount) ELSE <<>>]

(***************************************************************************)
(* CSV reading.                                                            *)
(***************************************************************************)
\* csv.reader on one line with the given delimiter: a blank line is the
\* empty row, any other line is split on the delimiter.
ParseLine(raw, delimiter) ==
    IF raw = <<>> THEN <<>> ELSE SplitOn(raw, delimiter)

\* dict(zip(fieldnames, row)) with restval None, read with row.get(name,
\* default): the last column of that name wins, a column the row is too
\* short for reads None, a name that is no column reads the default.
RowGet(fieldnames, row, name, default) ==
    LET idx == {i \in 1..Len(fieldnames) : fieldnames[i] = name}
    IN  IF idx = {} THEN default
        ELSE LET k == CHOOSE i \in idx : \A j \in idx : j <= i
             IN  IF k <= Len(row) THEN row[k] ELSE None

\* Index of the first non-blank line after line pos, 0 when there is none
\* (DictReader.__next__ skips empty rows).
NextRowIndex(lines, pos) ==
    LET later == {i \in (pos + 1)..Len(lines) : lines[i] # <<>>}
    IN  IF later = {} THEN 0 ELSE CHOOSE i \in later : \A j \in later : i <= j

\* csv.Sniffer().sniff(sample) with the fallback of open_csv_reader: the
\* sniffed delimiter, or ";" when sniffing raises csv.Error.
ReaderDelimiter(sniff) == IF sniff = "error" THEN ";" ELSE sniff

\* The fallback assigns to the delimiter attribute of the class csv.excel,
\* which stays set for the rest of the process.
ExcelClassDelimiter(sniff, excel) == IF sniff = "error" THEN ";" ELSE excel

\* A writer that takes its dialect from the class csv.excel.
WriterDelimiterOfClass(excel) == excel

\* csv.DictWriter(csvfile, fieldnames=YNAB_FIELDNAMES) takes the dialect
\* registered under the name "excel" when the csv module was imported, not
\* the current attributes of the class csv.excel.
WriterDelimiter(excel) == ","

\* list(reader.fieldnames) if reader.fieldnames else None: the row parsed
\* from the line that follows the skipped offset; <<>> stands for None, which
\* a blank line and a file that ends before that line both give.
ReadFieldnames(lines, offset, delimiter) ==
    IF offset < Len(lines) THEN ParseLine(lines[offset + 1], delimiter) ELSE <<>>

(***************************************************************************)
(* Format detector.                                                        *)
(***************************************************************************)
Contains(line, word) == \E i \in 1..Len(line) : line[i] = word

\* The header row of a DKB export: the first line holding both markers,
\* read as a semicolon-delimited row; <<>> (None) when no line holds them.
sniff_dkb_header(lines) ==
    LET hits == {i \in 1..Len(lines) :
                    Contains(lines[i], "Buchungsdatum")
                    /\ Contains(lines[i], "Wertstellung")}
    IN  IF hits = {} THEN <<>>
        ELSE ParseLine(lines[CHOOSE i \in hits : \A j \in hits : i <= j], ";")

SeqRange(f) == {f[i] : i \in 1..Len(f)}

\* The detected account type, or "ValueError".
detect_account_type(lines) ==
    LET header == sniff_dkb_header(lines)
    IN  IF header = <<>> THEN "ValueError"
        ELSE IF {Zahlungspflichtiger, Zahlungsempfaenger, BetragEuro}
                    \subseteq SeqRange(header) THEN GIROKONTO
        ELSE IF {Beschreibung, BetragEUR} \subseteq SeqRange(header) THEN VISA
        ELSE "ValueError"

(***************************************************************************)
(* Column validation.                                                      *)
(***************************************************************************)
get_required_columns(filetype) ==
    IF filetype = VISA THEN <<Wertstellung, Beschreibung, BetragEUR>>
    ELSE <<Wertstellung, Zahlungspflichtiger, Zahlungsempfaenger,
           Verwendungszweck, BetragEuro>>

\* The required names that are no column of the header, in required order.
RECURSIVE MissingColumns(_, _)
MissingColumns(fieldnames, required) ==
    IF required = <<>> THEN <<>>
    ELSE (IF Head(required) \in SeqRange(fieldnames) THEN <<>>
          ELSE <<Head(required)>>) \o MissingColumns(fieldnames, Tail(required))

\* The outcome of validate_columns: "ok", or the ValueError it raises.
validate_columns(fieldnames, required) ==
    IF fieldnames = <<>>
    THEN [status |-> "ValueError: header", missing |-> <<>>]
    ELSE IF MissingColumns(fieldnames, required) # <<>>
    THEN [status |-> "ValueError: columns",
          missing |-> MissingColumns(fieldnames, required)]
    ELSE [status |-> "ok", missing |-> <<>>]

\* Header-skip offset of convert and preview.
Offset(filetype) == IF filetype = VISA THEN 6 ELSE 4

(***************************************************************************)
(* Per-row processing.                                                     *)
(***************************************************************************)
NoAmount == [ok |-> FALSE, neg |-> FALSE, int |-> 0, frac |-> <<>>]
NoRow == build_row(<<>>, <<>>, <<>>, NoAmount)

Raise(error) == [kind |-> "raise", error |-> error, amount |-> NoAmount, row |-> NoRow]
Skip == [kind |-> "skip", error |-> "", amount |-> NoAmount, row |-> NoRow]
Write(amount, row) == [kind |-> "write", error |-> "", amount |-> amount, row |-> row]

\* A choice that sends the zero amount to the payer column.
ConvertPayeeColumnZeroPayer(amount) ==
    IF Sign(amount) >= 0 THEN Zahlungspflichtiger ELSE Zahlungsempfaenger

\* The payee column of a checking row, chosen by the sign of the amount.
ConvertPayeeColumn(amount) ==
    IF Sign(amount) > 0 THEN Zahlungspflichtiger ELSE Zahlungsempfaenger

\* Body of the row loop of convert.  A None read from a short row raises:
\* AttributeError from None.strip() and None.split(), TypeError from re.sub.
ConvertRow(filetype, fieldnames, row) ==
    LET get(name) == RowGet(fieldnames, row, name, <<>>)
    IN  IF get(Wertstellung) = None THEN Raise("AttributeError")
        ELSE LET date == convert_date_format(Strip(get(Wertstellung)))
        IN  IF filetype = VISA
            THEN IF get(Beschreibung) = None \/ get(Unnamed) = None
                 THEN Raise("AttributeError")
                 ELSE IF get(BetragEUR) = None THEN Raise("TypeError")
                 ELSE LET payee == normalize_text(get(Beschreibung))
                          memo == normalize_text(get(Unnamed))
                          amount == parse_amount(get(BetragEUR))
                      IN  IF ~amount.ok THEN Skip
                          ELSE Write(amount,
                                     build_row(date,
                                               normalize_text(normalize_payee(payee, memo)),
                                               memo, amount))
            ELSE IF get(BetragEuro) = None THEN Raise("TypeError")
                 ELSE LET amount == parse_amount(get(BetragEuro))
                      IN  IF ~amount.ok THEN Skip
                          ELSE IF get(ConvertPayeeColumn(amount)) = None
                                  \/ get(Verwendungszweck) = None
                          THEN Raise("AttributeError")
                          ELSE LET payee == normalize_text(get(ConvertPayeeColumn(amount)))
                                   memo == normalize_text(get(Verwendungszweck))
                               IN  Write(amount,
                                         build_row(date,
                                                   normalize_text(normalize_payee(payee, memo)),
                                                   memo, amount))

PreviewPayeeColumn(amount) ==
    IF Sign(amount) > 0 THEN Zahlungspflichtiger ELSE Zahlungsempfaenger

\* Body of the row loop of preview, up to the limit test.
PreviewRow(filetype, fieldnames, row) ==
    LET get(name) == RowGet(fieldnames, row, name, <<>>)
    IN  IF get(Wertstellung) = None THEN Raise("AttributeError")
        ELSE LET date == convert_date_format(Strip(get(Wertstellung)))
        IN  IF filetype = VISA
            THEN IF get(Beschreibung) = None \/ get(Unnamed) = None
                 THEN Raise("AttributeError")
                 ELSE IF get(BetragEUR) = None THEN Raise("TypeError")
                 ELSE LET payee == normalize_text(get(Beschreibung))
                          memo == normalize_text(get(Unnamed))
                          amount == parse_amount(get(BetragEUR))
                      IN  IF ~amount.ok THEN Skip
                          ELSE Write(amount,
                                     build_row(date,
                                               normalize_text(normalize_payee(payee, memo)),
                                               memo, amount))
            ELSE IF get(BetragEuro) = None THEN Raise("TypeError")
                 ELSE LET amount == parse_amount(get(BetragEuro))
                      IN  IF ~amount.ok THEN Skip
                          ELSE IF get(PreviewPayeeColumn(amount)) = None
                                  \/ get(Verwendungszweck) = None
                          THEN Raise("AttributeError")
                          ELSE LET payee == normalize_text(get(PreviewPayeeColumn(amount)))
                                   memo == normalize_text(get(Verwendungszweck))
                               IN  Write(amount,
                                         build_row(date,
                                                   normalize_text(normalize_payee(payee, memo)),
                                                   memo, amount))

\* csv.DictWriter.writeheader / writerow: the cells in fieldnames order.
HeaderCells == [i \in 1..Len(YNAB_FIELDNAMES) |-> <<YNAB_FIELDNAMES[i]>>]
RowCells(r) == [i \in 1..Len(YNAB_FIELDNAMES) |-> r[YNAB_FIELDNAMES[i]]]

(***************************************************************************)
(* Source files of the model.                                              *)
(***************************************************************************)
RECURSIVE JoinCells(_, _)
JoinCells(cells, delimiter) ==
    IF cells = <<>> THEN <<>>
    ELSE IF Len(cells) = 1 THEN cells[1]
    ELSE cells[1] \o <<delimiter>> \o JoinCells(Tail(cells), delimiter)

GiroHeader == <<Buchungsdatum, Wertstellung, Zahlungspflichtiger,
                Zahlungsempfaenger, Verwendungszweck, BetragEuro>>
GiroHeaderNoMemo == <<Buchungsdatum, Wertstellung, Zahlungspflichtiger,
                      Zahlungsempfaenger, BetragEuro>>
VisaHeader == <<Buchungsdatum, Wertstellung, Beschreibung, BetragEUR, Unnamed>>
VisaHeaderNoUnnamed == <<Buchungsdatum, Wertstellung, Beschreibung, BetragEUR>>

\* Transactions: the cell of each column.
TxnIn ==
    [date |-> <<"1", "9", ".", "0", "2", ".", "2", "0", "2", "6">>,
     payer |-> <<"Firma", " ", " ", "AG">>, payee |-> <<"Ich">>,
     memo |-> <<"Lohn">>, desc |-> <<"Erstattung">>,
     amount |-> <<"1", ".", "2", "3", "4", ",", "5", "6">>]
TxnOut ==
    [date |-> <<"1", "9", ".", "0", "2", ".", "2", "6">>,
     payer |-> <<"Ich">>, payee |-> PAYPAL_PREFIX,
     memo |-> <<"Ihr", " ", " ", "Einkauf", " ", "bei", " ", "Store", ",", " ", "Nr">>,
     desc |-> PAYPAL_PREFIX,
     amount |-> <<"-", "0", ",", "5">>]
TxnZero ==
    [date |-> <<"1", "9", "/", "0", "2", "/", "2", "6">>,
     payer |-> <<"Bank">>, payee |-> <<" ", "Kasse">>,
     memo |-> <<>>, desc |-> <<"Storno">>,
     amount |-> <<"0", ",", "0", "0">>]
TxnBad ==
    [date |-> <<"heute">>,
     payer |-> <<"Ich">>, payee |-> <<"Laden">>,
     memo |-> <<"Kauf">>, desc |-> <<"Laden">>,
     amount |-> <<"offen">>]

Cell(column, txn) ==
    CASE column \in {Buchungsdatum, Wertstellung} -> txn.date
      [] column = Zahlungspflichtiger -> txn.payer
      [] column = Zahlungsempfaenger -> txn.payee
      [] column \in {Verwendungszweck, Unnamed} -> txn.memo
      [] column = Beschreibung -> txn.desc
      [] column \in {BetragEuro, BetragEUR} -> txn.amount

\* A data row is a transaction laid out under the header, or a short row
\* that ends after the two date columns.
RowKinds == {"in", "out", "zero", "bad", "short"}

DataRow(header, kind) ==
    LET txn == CASE kind = "in" -> TxnIn [] kind = "out" -> TxnOut
                 [] kind = "zero" -> TxnZero [] OTHER -> TxnBad
        full == [i \in 1..Len(header) |-> Cell(header[i], txn)]
    IN  IF kind = "short" THEN SubSeq(full, 1, 2) ELSE full

\* The bank metadata that precedes the header row.
Preamble(n, delimiter) ==
    [i \in 1..n |-> IF i % 2 = 1 THEN <<"Konto", delimiter, "IBAN">> ELSE <<>>]

RowKindSeqs == UNION {[1..n -> RowKinds] : n \in 0..MaxRows}
PlainRowSeqs == {[i \in 1..n |-> "in"] : n \in 0..MaxRows}

MkFile(delimiter, sniff, pre, header, kinds) ==
    [kind |-> "file", sniff |-> sniff,
     lines |-> Preamble(pre, delimiter)
               \o <<JoinCells(header, delimiter)>>
               \o [i \in 1..Len(kinds) |->
                      JoinCells(DataRow(header, kinds[i]), delimiter)]]

\* Shapes of a source file: its delimiter, what the sniffer makes of its
\* first 1024 characters, the number of lines before the header, the header.
\* The well-formed exports come with every sequence of data rows, the other
\* shapes with well-formed rows only.
ExportShapes ==
    {<<";", ";", 4, GiroHeader>>, <<";", ";", 6, VisaHeader>>}
OtherShapes ==
    {<<";", "error", 4, GiroHeader>>, <<";", ",", 4, GiroHeader>>,
     <<",", ",", 4, GiroHeader>>, <<";", ";", 5, GiroHeader>>,
     <<";", ";", 4, GiroHeaderNoMemo>>, <<";", "error", 6, VisaHeader>>,
     <<";", ";", 6, VisaHeaderNoUnnamed>>}

\* The files at the source path: exports, a file that ends with its
\* preamble, no file, a directory.
SourceFiles ==
    {MkFile(sh[1], sh[2], sh[3], sh[4], ks) : sh \in ExportShapes, ks \in RowKindSeqs}
    \cup {MkFile(sh[1], sh[2], sh[3], sh[4], ks) : sh \in OtherShapes, ks \in PlainRowSeqs}
    \cup {[kind |-> "file", sniff |-> "error", lines |-> Preamble(4, ";")],
          [kind |-> "missing", sniff |-> "error", lines |-> <<>>],
          [kind |-> "dir", sniff |-> "error", lines |-> <<>>]}

\* The file at the export path before the process starts.
NoFile == [exists |-> FALSE, delimiter |-> ",", rows |-> <<>>]
OldFile == [exists |-> TRUE, delimiter |-> ";", rows |-> <<<<<<"alt">>>>>>]

(***************************************************************************)
(* State.                                                                  *)
(***************************************************************************)
VARIABLES
    src,              \* the source file
    filetype,         \* the account type in use, "none" before it is known
    excel_delimiter,  \* csv.excel.delimiter, an attribute of the process
    pc,               \* position of the process
    calls,            \* number of convert and preview calls begun
    handles,          \* the open file handles
    out,              \* the file at the export path
    saved,            \* the file at the export path when convert was called
    stdout,           \* what the last preview wrote to the console
    limit,            \* the --limit argument
    delimiter,        \* delimiter of the reader's dialect
    fieldnames,       \* reader.fieldnames
    pos,              \* number of source lines consumed
    index,            \* the row counter of preview
    amount,           \* the amount parsed from the row processed last
    validated,        \* validate_columns has returned in the current convert
    cresult,          \* how the last convert ended
    presult           \* how the last preview ended

vars == <<src, filetype, excel_delimiter, pc, calls, handles,
          out, saved, stdout, limit, delimiter, fieldnames, pos, index,
          amount, validated, cresult, presult>>

Result(status) == [status |-> status, missing |-> <<>>]

Init ==
    /\ src \in SourceFiles
    /\ filetype = "none"
    /\ excel_delimiter = ","
    /\ pc = "main"
    /\ calls = 0
    /\ handles = {}
    /\ out \in {NoFile, OldFile}
    /\ saved = out
    /\ stdout = <<>>
    /\ limit \in 0..MaxLimit
    /\ delimiter = ","
    /\ fieldnames = <<>>
    /\ pos = 0
    /\ index = 0
    /\ amount = NoAmount
    /\ validated = FALSE
    /\ cresult = Result("none")
    /\ presult = Result("none")

\* The exception open() raises on a source that is no regular file.
OpenError(file) ==
    IF file.kind = "missing" THEN "FileNotFoundError" ELSE "IsADirectoryError"

\* A reader that returns without closing the source.
CloseSourceLeak(h) == h

\* Leaving the with block of open_csv_reader closes the source.
CloseSource(h) == h \ {"source"}

\* Leaving the with block of convert closes the output.
CloseOutput(h) == h \ {"output"}

(***************************************************************************)
(* main: the account type is given, or detected from the file.             *)
(***************************************************************************)
ExplicitType ==
    /\ pc = "main"
    /\ \E t \in AccountType : filetype' = t
    /\ pc' = "ready"
    /\ UNCHANGED <<src, excel_delimiter, calls, handles, out,
                   saved, stdout, limit, delimiter, fieldnames, pos, index,
                   amount, validated, cresult, presult>>

Detect ==
    /\ pc = "main"
    /\ LET t == IF src.kind = "file" THEN detect_account_type(src.lines)
                ELSE OpenError(src)
       IN  /\ filetype' = IF t \in AccountType THEN t ELSE "none"
           /\ pc' = IF t \in AccountType THEN "ready" ELSE "exit"
    /\ UNCHANGED <<src, excel_delimiter, calls, handles, out,
                   saved, stdout, limit, delimiter, fieldnames, pos, index,
                   amount, validated, cresult, presult>>

(***************************************************************************)
(* convert                                                                 *)
(***************************************************************************)
\* open_csv_reader: open the source, sniff the dialect, skip the offset.
ConvertOpenSource ==
    /\ pc = "ready"
    /\ calls < MaxCalls
    /\ calls' = calls + 1
    /\ saved' = out
    /\ validated' = FALSE
    /\ IF src.kind # "file"
       THEN /\ cresult' = Result(OpenError(src))
            /\ UNCHANGED <<pc, handles, delimiter, excel_delimiter, pos>>
       ELSE /\ handles' = handles \cup {"source"}
            /\ delimiter' = ReaderDelimiter(src.sniff)
            /\ excel_delimiter' = ExcelClassDelimiter(src.sniff, excel_delimiter)
            /\ pos' = Offset(filetype)
            /\ cresult' = Result("running")
            /\ pc' = "c_open_out"
    /\ amount' = NoAmount
    /\ UNCHANGED <<src, filetype, out, stdout, limit, fieldnames, index,
                   presult>>

\* open(export_path, "w"), DictWriter, writeheader.  Opening may fail.
ConvertOpenOutput ==
    /\ pc = "c_open_out"
    /\ \E ok \in BOOLEAN :
          IF ok
          THEN /\ out' = [exists |-> TRUE,
                          delimiter |-> WriterDelimiter(excel_delimiter),
                          rows |-> <<HeaderCells>>]
               /\ handles' = handles \cup {"output"}
               /\ pc' = "c_validate"
               /\ UNCHANGED cresult
          ELSE /\ handles' = CloseSource(handles)
               /\ cresult' = Result("OSError")
               /\ pc' = "ready"
               /\ UNCHANGED out
    /\ UNCHANGED <<src, filetype, excel_delimiter, calls, saved,
                   stdout, limit, delimiter, fieldnames, pos, index, amount,
                   validated, presult>>

ConvertValidate ==
    /\ pc = "c_validate"
    /\ fieldnames' = ReadFieldnames(src.lines, pos, delimiter)
    /\ \E v \in {validate_columns(fieldnames', get_required_columns(filetype))} :
           IF v.status = "ok"
           THEN /\ validated' = TRUE
                /\ pos' = pos + 1
                /\ pc' = "c_rows"
                /\ UNCHANGED <<handles, cresult>>
           ELSE /\ handles' = CloseSource(CloseOutput(handles))
                /\ cresult' = v
                /\ pc' = "ready"
                /\ UNCHANGED <<validated, pos>>
    /\ UNCHANGED <<src, filetype, excel_delimiter, calls, out,
                   saved, stdout, limit, delimiter, index, amount, presult>>

\* One pass of the row loop.
ConvertNextRow ==
    /\ pc = "c_rows"
    /\ NextRowIndex(src.lines, pos) # 0
    /\ pos' = NextRowIndex(src.lines, pos)
    /\ \E row \in {ParseLine(src.lines[pos'], delimiter)} :
       \E r \in {ConvertRow(filetype, fieldnames, row)} :
           /\ amount' = r.amount
           /\ out' = IF r.kind = "write"
                     THEN [out EXCEPT !.rows = Append(@, RowCells(r.row))]
                     ELSE out
           /\ IF r.kind = "raise"
              THEN /\ handles' = CloseSource(CloseOutput(handles))
                   /\ cresult' = Result(r.error)
                   /\ pc' = "ready"
              ELSE UNCHANGED <<handles, cresult, pc>>
    /\ UNCHANGED <<src, filetype, excel_delimiter, calls, saved,
                   stdout, limit, delimiter, fieldnames, index, validated,
                   presult>>

\* The reader is exhausted: both files are closed, the export path returned.
ConvertReturn ==
    /\ pc = "c_rows"
    /\ NextRowIndex(src.lines, pos) = 0
    /\ handles' = CloseSource(CloseOutput(handles))
    /\ cresult' = Result("returned")
    /\ pc' = "ready"
    /\ UNCHANGED <<src, filetype, excel_delimiter, calls, out,
                   saved, stdout, limit, delimiter, fieldnames, pos, index,
                   amount, validated, presult>>

(***************************************************************************)
(* preview                                                                 *)
(***************************************************************************)
PreviewOpenSource ==
    /\ pc = "ready"
    /\ calls < MaxCalls
    /\ calls' = calls + 1
    /\ stdout' = <<>>
    /\ index' = 0
    /\ IF src.kind # "file"
       THEN /\ presult' = Result(OpenError(src))
            /\ UNCHANGED <<pc, handles, delimiter, excel_delimiter, pos>>
       ELSE /\ handles' = handles \cup {"source"}
            /\ delimiter' = ReaderDelimiter(src.sniff)
            /\ excel_delimiter' = ExcelClassDelimiter(src.sniff, excel_delimiter)
            /\ pos' = Offset(filetype)
            /\ presult' = Result("running")
            /\ pc' = "p_validate"
    /\ amount' = NoAmount
    /\ UNCHANGED <<src, filetype, out, saved, limit, fieldnames, validated,
                   cresult>>

\* validate_columns, then the header goes to the console.
PreviewValidate ==
    /\ pc = "p_validate"
    /\ fieldnames' = ReadFieldnames(src.lines, pos, delimiter)
    /\ \E v \in {validate_columns(fieldnames', get_required_columns(filetype))} :
           IF v.status = "ok"
           THEN /\ stdout' = <<HeaderCells>>
                /\ pos' = pos + 1
                /\ pc' = "p_rows"
                /\ UNCHANGED <<handles, presult>>
           ELSE /\ handles' = CloseSource(handles)
                /\ presult' = v
                /\ pc' = "ready"
                /\ UNCHANGED <<stdout, pos>>
    /\ UNCHANGED <<src, filetype, excel_delimiter, calls, out,
                   saved, limit, delimiter, index, amount, validated, cresult>>

\* One pass of the row loop: a skipped row continues before the limit test.
PreviewNextRow ==
    /\ pc = "p_rows"
    /\ NextRowIndex(src.lines, pos) # 0
    /\ pos' = NextRowIndex(src.lines, pos)
    /\ index' = index + 1
    /\ \E row \in {ParseLine(src.lines[pos'], delimiter)} :
       \E r \in {PreviewRow(filetype, fieldnames, row)} :
           /\ amount' = r.amount
           /\ stdout' = IF r.kind = "write"
                        THEN Append(stdout, RowCells(r.row)) ELSE stdout
           /\ IF r.kind = "raise"
              THEN /\ handles' = CloseSource(handles)
                   /\ presult' = Result(r.error)
                   /\ pc' = "ready"
              ELSE /\ pc' = IF r.kind = "write" /\ index' >= limit
                            THEN "p_break" ELSE "p_rows"
                   /\ UNCHANGED <<handles, presult>>
    /\ UNCHANGED <<src, filetype, excel_delimiter, calls, out,
                   saved, limit, delimiter, fieldnames, validated, cresult>>

\* The loop ends, by the break or with the reader exhausted.
PreviewReturn ==
    /\ \/ pc = "p_break"
       \/ pc = "p_rows" /\ NextRowIndex(src.lines, pos) = 0
    /\ handles' = CloseSource(handles)
    /\ presult' = Result("returned")
    /\ pc' = "ready"
    /\ UNCHANGED <<src, filetype, excel_delimiter, calls, out,
                   saved, stdout, limit, delimiter, fieldnames, pos, index,
                   amount, validated, cresult>>

Next ==
    \/ ExplicitType
    \/ Detect
    \/ ConvertOpenSource
    \/ ConvertOpenOutput
    \/ ConvertValidate
    \/ ConvertNextRow
    \/ ConvertReturn
    \/ PreviewOpenSource
    \/ PreviewValidate
    \/ PreviewNextRow
    \/ PreviewReturn

Spec == Init /\ [][Next]_vars

(***************************************************************************)
(* Properties.                                                             *)
(***************************************************************************)
Field(cells, name) ==
    cells[CHOOSE i \in 1..Len(YNAB_FIELDNAMES) : YNAB_FIELDNAMES[i] = name]

\* The current convert, or the last one, has opened the output.
OutputOpened ==
    \/ pc \in {"c_validate", "c_rows"}
    \/ cresult.status \in {"returned", "ValueError: header", "ValueError: columns",
                           "TypeError", "AttributeError"}

\* The last convert has ended, by returning or by raising.
ConvertEnded == pc = "ready" /\ cresult.status \notin {"none", "running"}

PreviewEnded == pc = "ready" /\ presult.status \notin {"none", "running"}

\* The source row the row loop processed last.
CurrentRow == ParseLine(src.lines[pos], delimiter)

\* The non-blank lines after the header line of the account type.
DataLines ==
    {i \in (Offset(filetype) + 2)..Len(src.lines) : src.lines[i] # <<>>}

\* C1: a convert that fails with a fatal pre-processing error (source missing
\* or a directory, missing header row, missing required columns) leaves the
\* export path as it was when convert was called.
C1_FatalErrorWritesNothing ==
    (ConvertEnded /\ cresult.status \in {"FileNotFoundError", "IsADirectoryError",
                                         "ValueError: header", "ValueError: columns"})
        => out = saved

\* C2: once column validation has passed, convert does not abort on the
\* content of a data row: it is running or it has returned the export path.
C2_NoRowAborts ==
    validated => cresult.status \in {"running", "returned"}

\* C3: for a checking-account file with N data rows, K of them with an amount
\* that does not parse, convert leaves an output of one header row and N-K data rows.
AmountParses(line) ==
    LET a == RowGet(fieldnames, ParseLine(line, delimiter), BetragEuro, <<>>)
    IN  a # None /\ parse_amount(a).ok

C3_RowCount ==
    (ConvertEnded /\ validated /\ filetype = GIROKONTO)
        => /\ out.rows[1] = HeaderCells
           /\ Len(out.rows) = 1 + Cardinality({i \in DataLines : AmountParses(src.lines[i])})

\* C4: every row written by convert or preview has Category empty and never
\* both Outflow and Inflow; the row written for a positive amount has Inflow
\* only, for a negative amount Outflow only (unsigned), for zero neither.
SignRule(a, cells) ==
    /\ Sign(a) > 0 => Field(cells, "Outflow") = <<>> /\ Field(cells, "Inflow") # <<>>
    /\ Sign(a) < 0 => /\ Field(cells, "Outflow") # <<>>
                      /\ Head(Field(cells, "Outflow")) # "-"
                      /\ Field(cells, "Inflow") = <<>>
    /\ Sign(a) = 0 => Field(cells, "Outflow") = <<>> /\ Field(cells, "Inflow") = <<>>

Exclusive(cells) ==
    /\ Field(cells, "Category") = <<>>
    /\ Field(cells, "Outflow") = <<>> \/ Field(cells, "Inflow") = <<>>

C4_OutflowInflowExclusive ==
    /\ OutputOpened => \A i \in 2..Len(out.rows) : Exclusive(out.rows[i])
    /\ \A i \in 2..Len(stdout) : Exclusive(stdout[i])
    /\ (pc = "c_rows" /\ amount.ok) => SignRule(amount, out.rows[Len(out.rows)])
    /\ (pc \in {"p_rows", "p_break"} /\ amount.ok) => SignRule(amount, stdout[Len(stdout)])

C4_Witness ==
    /\ pc = "c_rows" /\ amount.ok /\ Sign(amount) < 0
    /\ Len(out.rows) = 3
    /\ Field(out.rows[2], "Inflow") # <<>>
    /\ Field(out.rows[3], "Outflow") # <<>>

\* C5: the file convert writes is comma-delimited and starts with the header
\* Date,Payee,Category,Memo,Outflow,Inflow, whatever the reader's dialect is
\* and whether or not an earlier conversion took the semicolon fallback.
C5_OutputCommaDelimited ==
    OutputOpened => /\ out.exists
                    /\ out.delimiter = ","
                    /\ out.rows[1] = <<<<"Date">>, <<"Payee">>, <<"Category">>,
                                       <<"Memo">>, <<"Outflow">>, <<"Inflow">>>>

C5_Witness ==
    /\ ConvertEnded /\ cresult.status = "returned"
    /\ calls = 2 /\ presult.status = "none"
    /\ src.sniff = "error" /\ excel_delimiter = ";"
    /\ Len(out.rows) >= 2

\* C6: convert goes on to the data rows only when the header holds every
\* column required for the account type; for credit-card these are
\* value-date, description, the unnamed memo column and amount.
ClaimedRequiredColumns(t) ==
    IF t = VISA THEN {Wertstellung, Beschreibung, Unnamed, BetragEUR}
    ELSE {Wertstellung, Zahlungspflichtiger, Zahlungsempfaenger,
          Verwendungszweck, BetragEuro}

C6_MissingColumnRejected ==
    /\ pc = "c_rows" => ClaimedRequiredColumns(filetype) \subseteq SeqRange(fieldnames)
    /\ (ConvertEnded /\ cresult.status = "ValueError: columns")
          => SeqRange(cresult.missing) =
                ClaimedRequiredColumns(filetype) \ SeqRange(fieldnames)

\* C7: a preview with limit L writes at most L data rows, and they are the
\* first rows the convert of the same file and type writes.
C7_PreviewBounded ==
    /\ (PreviewEnded /\ presult.status = "returned") => Len(stdout) - 1 <= limit
    /\ (PreviewEnded /\ ConvertEnded /\ OutputOpened)
          => /\ Len(stdout) <= Len(out.rows)
             /\ stdout = SubSeq(out.rows, 1, Len(stdout))

\* C8: no file handle is open once convert has returned or raised.
C8_HandlesClosed ==
    pc \in {"main", "ready", "exit"} => handles = {}

C8_Witness ==
    /\ ConvertEnded /\ cresult.status = "OSError" /\ handles = {}

\* C9: the Payee of a checking row comes from the payer column for a positive
\* amount and from the payee column for a negative one (as the normalized
\* cell, or as the store its PayPal memo names), never from the other
\* column, and convert and preview give every row the same Payee.
PayeeFrom(column) ==
    LET cell == RowGet(fieldnames, CurrentRow, column, <<>>)
        memo == RowGet(fieldnames, CurrentRow, Verwendungszweck, <<>>)
        store == extract_paypal_store(normalize_text(memo))
    IN  {normalize_text(cell)}
        \cup (IF IsPrefix(PAYPAL_PREFIX, normalize_text(cell)) /\ store # <<>>
              THEN {store} ELSE {})

PayeeRule(a, cells) ==
    /\ Sign(a) > 0 => Field(cells, "Payee") \in PayeeFrom(Zahlungspflichtiger)
    /\ Sign(a) < 0 => Field(cells, "Payee") \in PayeeFrom(Zahlungsempfaenger)
    /\ Sign(a) = 0 => Field(cells, "Payee") \in
                         PayeeFrom(Zahlungspflichtiger) \cup PayeeFrom(Zahlungsempfaenger)

C9_PayeeBySign ==
    filetype = GIROKONTO =>
        /\ (pc = "c_rows" /\ amount.ok) => PayeeRule(amount, out.rows[Len(out.rows)])
        /\ (pc \in {"p_rows", "p_break"} /\ amount.ok)
              => PayeeRule(amount, stdout[Len(stdout)])
        /\ (OutputOpened /\ presult.status # "none")
              => \A i \in 2..Len(stdout) :
                    i <= Len(out.rows)
                        => Field(stdout[i], "Payee") = Field(out.rows[i], "Payee")

C9_Witness ==
    /\ filetype = GIROKONTO
    /\ ConvertEnded /\ cresult.status = "returned"
    /\ PreviewEnded /\ presult.status = "returned"
    /\ Len(stdout) = 3 /\ Len(out.rows) = 3
    /\ Field(out.rows[2], "Outflow") = <<>> /\ Field(out.rows[2], "Inflow") = <<>>
    /\ Field(out.rows[3], "Outflow") # <<>>

\* C10: when the account type in use is the one detect_account_type returns
\* for the file, convert reads as header the line the detector classified
\* and does not fail column validation.
C10_DetectionAgrees ==
    (src.kind = "file" /\ filetype = detect_account_type(src.lines))
        => /\ cresult.status \notin {"ValueError: header", "ValueError: columns"}
           /\ pc = "c_rows" => fieldnames = sniff_dkb_header(src.lines)

====
